---- MODULE Spec2Model ----
(***************************************************************************)
(* Drip publisher of the TruPath SEO dashboard.                            *)
(*                                                                         *)
(* publisher.py runs run_drip_cycle once an hour under an APScheduler      *)
(* BlockingScheduler; every cycle walks the active campaigns, checks the   *)
(* daily limit, takes the next 'Content Ready' page and posts it to        *)
(* WordPress.  database.py holds the pages table; app.py (the dashboard)   *)
(* inserts pages and moves them Pending -> Data Ready -> Content Ready.    *)
(*                                                                         *)
(* database.py has no get_active_campaigns, get_published_count_today or   *)
(* get_next_ready_page, and the pages table has no campaign column: these  *)
(* three getters and the page's campaign are modelled from the             *)
(* specification's data model (sections 3, 4.1, 4.2 and 6).                *)
(***************************************************************************)
EXTENDS Integers, Sequences, FiniteSets

\* ------------------------------------------------------------- bounds

NumCamps == 2
NumPages == 2
MaxDay == 1
MaxBatch == 2
MaxRows == 3
NumWiki == 6

Camps == 1..NumCamps

\* SQL NULL / Python None
NULL == "NULL"
\* The 'link' values a WordPress site may answer with.
Links == {"https://site.example/a/", "https://site.example/b/"}
\* HTTP status codes a site may answer with.
StatusCodes == {200, 201, 301, 401, 500}

\* What requests.post can do: raise (connection error, timeout), or return a
\* response with a status code and a body that is JSON with a link, JSON
\* without a link, or not JSON at all.
Responses ==
    {[kind |-> "exception", status_code |-> 0, body |-> "none", link |-> NULL]}
    \cup {[kind |-> "response", status_code |-> s, body |-> "json", link |-> l] :
             s \in StatusCodes, l \in Links \cup {NULL}}
    \cup {[kind |-> "response", status_code |-> s, body |-> "unparsable", link |-> NULL] :
             s \in StatusCodes}

VARIABLES
    pages,       \* the pages table: row id -> row
    today,       \* the calendar day of CURRENT_TIMESTAMP
    active,      \* the campaigns' activation flags
    running,     \* number of run_drip_cycle instances executing
    pc,          \* position of the executing cycle
    campaigns,   \* run_drip_cycle's local: the list read at line 57
    idx,         \* position of the for loop in campaigns
    next_page,   \* local next_page: [id, row], id 0 for None
    result,      \* locals (success, live_url) of line 72
    cyc,         \* per campaign, what the current/last cycle did (history)
    became,      \* per campaign, publish transitions in the current day (history)
    lastTrigger, \* what the scheduler did with its last trigger (history)
    dash,        \* the dashboard session's position in its batch loop
    batch,       \* a second dashboard session's batch, read earlier
    proc,        \* the publisher process and the posts the site has created
    imp,         \* the CSV import: its table of hubs and spokes, its last call
    wiki         \* one call of fetch_wiki_urls_batch

vars == <<pages, today, active, running, pc, campaigns, idx, next_page, result,
          cyc, became, lastTrigger, dash, batch, proc, imp, wiki>>

\* ------------------------------------------------------- the database

\* A freshly inserted row: status 'Pending', everything else NULL,
\* created_at = updated_at = CURRENT_TIMESTAMP.  camp is the owning
\* destination of the specification's WorkItem.
NewRow(camp, now) ==
    [camp |-> camp, status |-> "Pending", serp_data |-> FALSE,
     html_content |-> FALSE, live_url |-> NULL,
     created_at |-> now, updated_at |-> now]

\* UPDATE ... WHERE id = ? changes nothing when no row has that id.
update_page_status(P, page_id, status, now) ==
    IF page_id \in DOMAIN P
    THEN [P EXCEPT ![page_id].status = status, ![page_id].updated_at = now]
    ELSE P

update_serp_data(P, page_id, now) ==
    IF page_id \in DOMAIN P
    THEN [P EXCEPT ![page_id].serp_data = TRUE, ![page_id].updated_at = now]
    ELSE P

update_html_content(P, page_id, now) ==
    IF page_id \in DOMAIN P
    THEN [P EXCEPT ![page_id].html_content = TRUE, ![page_id].updated_at = now]
    ELSE P

\* Mutant of update_live_url: the SET clause forgets live_url.
update_live_url_no_url(P, page_id, live_url, now) ==
    IF page_id \in DOMAIN P
    THEN [P EXCEPT ![page_id].status = "Published",
                   ![page_id].updated_at = now]
    ELSE P

update_live_url(P, page_id, live_url, now) ==
    IF page_id \in DOMAIN P
    THEN [P EXCEPT ![page_id].live_url = live_url,
                   ![page_id].status = "Published",
                   ![page_id].updated_at = now]
    ELSE P

\* Destination Registry: the daily limit of a campaign.
drip_rate_per_day(camp) == camp

RECURSIVE ActiveFrom(_, _)
ActiveFrom(c, act) ==
    IF c > NumCamps THEN <<>>
    ELSE (IF act[c] THEN <<c>> ELSE <<>>) \o ActiveFrom(c + 1, act)

\* Mutant of get_active_campaigns: the activation flag is not looked at.
get_all_campaigns(act) == ActiveFrom(1, [c \in Camps |-> TRUE])

\* list_active_destinations(): the active campaigns in registry order.
get_active_campaigns(act) == ActiveFrom(1, act)

\* Mutant of get_published_count_today: a counter kept by the process from
\* its own publishes of the day, not a query of the table.
get_published_count_today_cached(P, camp, now) == became[camp]

\* count_published_since(destination, start of today).
get_published_count_today(P, camp, now) ==
    Cardinality({i \in DOMAIN P : /\ P[i].camp = camp
                                  /\ P[i].status = "Published"
                                  /\ P[i].updated_at = now})

\* Mutant of ReadyPages: the status filter also lets 'Published' rows through.
ReadyPagesAnyStatus(P, camp) ==
    {i \in DOMAIN P : /\ P[i].camp = camp
                      /\ P[i].status \in {"Content Ready", "Published"}}

ReadyPages(P, camp) ==
    {i \in DOMAIN P : P[i].camp = camp /\ P[i].status = "Content Ready"}

\* Mutant of get_next_ready_page: ORDER BY ... DESC, the newest ready row.
get_next_ready_page_newest(P, camp) ==
    IF ReadyPages(P, camp) = {} THEN 0
    ELSE CHOOSE i \in ReadyPages(P, camp) : \A j \in ReadyPages(P, camp) : i >= j

\* get_oldest_ready_item(destination): oldest created_at, then lowest id;
\* 0 stands for None.
get_next_ready_page(P, camp) ==
    IF ReadyPages(P, camp) = {} THEN 0
    ELSE CHOOSE i \in ReadyPages(P, camp) :
            \A j \in ReadyPages(P, camp) :
                \/ P[i].created_at < P[j].created_at
                \/ (P[i].created_at = P[j].created_at /\ i <= j)

\* -------------------------------------------------------- publisher.py

\* Mutant of post_to_wordpress: every 2xx status counts as created.
post_to_wordpress_any2xx(resp) ==
    IF resp.kind = "exception"
    THEN [success |-> FALSE, live_url |-> NULL, raised |-> FALSE]
    ELSE IF resp.status_code \in 200..299
         THEN IF resp.body = "unparsable"
              THEN [success |-> FALSE, live_url |-> NULL, raised |-> FALSE]
              ELSE [success |-> TRUE, live_url |-> resp.link, raised |-> FALSE]
         ELSE [success |-> FALSE, live_url |-> NULL, raised |-> FALSE]

\* Mutant of post_to_wordpress: no try/except around requests.post.
post_to_wordpress_no_except(resp) ==
    IF resp.kind = "exception" \/ resp.body = "unparsable"
    THEN [success |-> FALSE, live_url |-> NULL, raised |-> TRUE]
    ELSE IF resp.status_code = 201
         THEN [success |-> TRUE, live_url |-> resp.link, raised |-> FALSE]
         ELSE [success |-> FALSE, live_url |-> NULL, raised |-> FALSE]

\* post_to_wordpress: (success, live_url, raised).  Everything from
\* requests.post on is inside try/except Exception.
post_to_wordpress(resp) ==
    IF resp.kind = "exception"
    THEN [success |-> FALSE, live_url |-> NULL, raised |-> FALSE]
    ELSE IF resp.status_code = 201
         THEN IF resp.body = "unparsable"
              THEN [success |-> FALSE, live_url |-> NULL, raised |-> FALSE]
              ELSE [success |-> TRUE, live_url |-> resp.link, raised |-> FALSE]
         ELSE [success |-> FALSE, live_url |-> NULL, raised |-> FALSE]

\* Mutants of LimitReached: an off-by-one comparison, and no check at all.
LimitReachedStrict(today_count, limit) == today_count > limit
LimitNeverReached(today_count, limit) == FALSE

\* Line 64: if today_count >= limit.
LimitReached(today_count, limit) == today_count >= limit

\* Mutant of NextIndex: the loop stays on the campaign (drains its queue).
NextIndexStay(i) == i
NextIndexSkip(i) == i + 2

\* The for loop's step to the next campaign.
NextIndex(i) == i + 1

\* Mutant of MaxInstances: add_job(..., max_instances=2).
MaxInstancesTwo == 1 + 1

\* add_job(run_drip_cycle, 'interval', hours=1): no max_instances given, so
\* APScheduler's default of one running instance per job applies.
MaxInstances == 1

\* What run_drip_cycle returns: it has no return statement, so None.
run_drip_cycle_return == NULL

NoPage == [id |-> 0, row |-> NewRow(0, 0)]
NoResult == [success |-> FALSE, live_url |-> NULL]
NoResp == [kind |-> "none", status_code |-> 0, body |-> "none", link |-> NULL]
\* What a cycle did for one campaign: the count it read, the row it selected,
\* the response it got and when, the (success, live_url) it derived, and the
\* numbers of its delivery calls, store writes and rows it made 'Published'.
NoCyc ==
    [outcome |-> "none", count |-> -1, item |-> 0, row |-> NewRow(0, 0),
     resp |-> NoResp, day |-> -1, link |-> NULL,
     calls |-> 0, writes |-> 0, pubs |-> 0]

\* No batch loop is running in the second session.
NoBatch == [kind |-> "none", ids |-> {}, cur |-> 0]

\* The publisher process as started: not interrupted, no exception has left
\* run_drip_cycle, the site holds no post of any page.
NoProc ==
    [stopped |-> FALSE, escaped |-> FALSE, posts |-> [i \in 1..NumPages |-> 0]]

\* No import has run: the table of hubs and spokes is empty.
NoImport == [table |-> <<>>, input |-> <<>>, base |-> 0, ret |-> 0]

\* fetch_wiki_urls_batch has not been called.
NoWiki ==
    [pc |-> "idle", total |-> 0, city |-> <<>>, task |-> <<>>,
     writes |-> <<>>, yielded |-> {}, completed |-> 0, progress |-> <<>>]

Init ==
    /\ pages = <<>>
    /\ today = 0
    /\ active = [c \in Camps |-> TRUE]
    /\ running = 0
    /\ pc = "idle"
    /\ campaigns = <<>>
    /\ idx = 0
    /\ next_page = NoPage
    /\ result = NoResult
    /\ cyc = [c \in Camps |-> NoCyc]
    /\ became = [c \in Camps |-> 0]
    /\ lastTrigger = "none"
    /\ dash = [pc |-> "idle", page |-> 0]
    /\ batch = NoBatch
    /\ proc = NoProc
    /\ imp = NoImport
    /\ wiki = NoWiki


\* ------------------------------------------------ the cycle's bookkeeping

Camp == campaigns[idx]

\* End of one pass of the for loop of line 59 (also `continue`): the next
\* campaign, or the end of the loop.
EndIteration ==
    /\ idx' = NextIndex(idx)
    /\ IF NextIndex(idx) > Len(campaigns)
       THEN pc' = "done"
       ELSE pc' = "check"

\* Number of rows of campaign c that are 'Published' in Q and were not in P.
NewlyPublished(P, Q, c) ==
    Cardinality({i \in DOMAIN P : /\ P[i].camp = c
                                  /\ P[i].status # "Published"
                                  /\ Q[i].status = "Published"})

\* ----------------------------------------------------------- scheduler

\* The interval trigger fires and the job may run: run_drip_cycle starts
\* and reads the active campaigns (line 57).
TriggerStart ==
    /\ ~proc.stopped
    /\ running < MaxInstances
    /\ lastTrigger' = "started"
    /\ IF running = 0
       THEN /\ campaigns' = get_active_campaigns(active)
            /\ idx' = 1
            /\ cyc' = [c \in Camps |-> NoCyc]
            /\ next_page' = NoPage
            /\ result' = NoResult
            /\ running' = running + 1
            /\ pc' = IF get_active_campaigns(active) = <<>>
                     THEN "done" ELSE "check"
       ELSE /\ running' = running + 1
            /\ UNCHANGED <<campaigns, idx, cyc, next_page, result, pc>>
    /\ UNCHANGED <<pages, today, active, became, dash>>
    /\ UNCHANGED batch
    /\ UNCHANGED <<proc, imp, wiki>>

\* The interval trigger fires while the job's instances are all in use:
\* APScheduler skips the run ("maximum number of running instances reached").
TriggerDropped ==
    /\ ~proc.stopped
    /\ running >= MaxInstances
    /\ lastTrigger' = "dropped"
    /\ UNCHANGED <<pages, today, active, running, pc, campaigns, idx,
                   next_page, result, cyc, became, dash>>
    /\ UNCHANGED batch
    /\ UNCHANGED <<proc, imp, wiki>>

\* ------------------------------------------------------ run_drip_cycle

\* Lines 61-66: the safety limit.
QuotaCheck ==
    /\ pc = "check"
    /\ LET today_count == get_published_count_today(pages, Camp, today)
           limit == drip_rate_per_day(Camp)
       IN IF LimitReached(today_count, limit)
          THEN /\ cyc' = [cyc EXCEPT ![Camp].count = today_count,
                                     ![Camp].outcome = "skipped_quota"]
               /\ EndIteration
          ELSE /\ cyc' = [cyc EXCEPT ![Camp].count = today_count]
               /\ pc' = "select"
               /\ UNCHANGED idx
    /\ UNCHANGED <<pages, today, active, running, campaigns, next_page,
                   result, became, lastTrigger, dash>>
    /\ UNCHANGED batch
    /\ UNCHANGED <<proc, imp, wiki>>

\* Mutant of SelectPage: an empty queue ends the loop (return in the else
\* of line 80) instead of falling through to the next campaign.
SelectPageEmptyEndsLoop ==
    /\ pc = "select"
    /\ LET id == get_next_ready_page(pages, Camp)
       IN IF id = 0
          THEN /\ next_page' = NoPage
               /\ cyc' = [cyc EXCEPT ![Camp].outcome = "skipped_empty"]
               /\ pc' = "done"
               /\ UNCHANGED idx
          ELSE /\ next_page' = [id |-> id, row |-> pages[id]]
               /\ cyc' = [cyc EXCEPT ![Camp].item = id,
                                     ![Camp].row = pages[id]]
               /\ pc' = "deliver"
               /\ UNCHANGED idx
    /\ UNCHANGED <<pages, today, active, running, campaigns, result, became,
                   lastTrigger, dash, batch, proc, imp, wiki>>

\* Lines 69-71 and 80-81: the next ready page, or none.
SelectPage ==
    /\ pc = "select"
    /\ LET id == get_next_ready_page(pages, Camp)
       IN IF id = 0
          THEN /\ next_page' = NoPage
               /\ cyc' = [cyc EXCEPT ![Camp].outcome = "skipped_empty"]
               /\ EndIteration
          ELSE /\ next_page' = [id |-> id, row |-> pages[id]]
               /\ cyc' = [cyc EXCEPT ![Camp].item = id,
                                     ![Camp].row = pages[id]]
               /\ pc' = "deliver"
               /\ UNCHANGED idx
    /\ UNCHANGED <<pages, today, active, running, campaigns, result, became,
                   lastTrigger, dash>>
    /\ UNCHANGED batch
    /\ UNCHANGED <<proc, imp, wiki>>

\* Line 72: the call of post_to_wordpress, and the branch of line 73.  An
\* exception leaving post_to_wordpress would leave run_drip_cycle too.
DeliverCall ==
    /\ pc = "deliver"
    /\ \E resp \in Responses :
        LET r == post_to_wordpress(resp)
        IN IF r.raised
           THEN /\ cyc' = [cyc EXCEPT ![Camp].calls = @ + 1,
                                      ![Camp].resp = resp,
                                      ![Camp].day = today,
                                      ![Camp].outcome = "raised"]
                /\ pc' = "done"
                /\ UNCHANGED <<idx, result>>
           ELSE IF r.success
           THEN /\ result' = [success |-> TRUE, live_url |-> r.live_url]
                /\ cyc' = [cyc EXCEPT ![Camp].calls = @ + 1,
                                      ![Camp].resp = resp,
                                      ![Camp].day = today,
                                      ![Camp].link = r.live_url]
                /\ pc' = "write_status"
                /\ UNCHANGED idx
           ELSE /\ result' = [success |-> FALSE, live_url |-> r.live_url]
                /\ cyc' = [cyc EXCEPT ![Camp].calls = @ + 1,
                                      ![Camp].resp = resp,
                                      ![Camp].day = today,
                                      ![Camp].outcome = "failed"]
                /\ EndIteration
    /\ UNCHANGED <<pages, today, active, running, campaigns, next_page,
                   became, lastTrigger, dash>>
    /\ UNCHANGED batch
    /\ UNCHANGED <<imp, wiki>>

\* The call as the publisher sees it; what the site keeps is left out.
Deliver ==
    /\ DeliverCall
    /\ UNCHANGED proc

\* Line 75: db.update_page_status(next_page['id'], 'Published'), committed.
WriteStatus ==
    /\ pc = "write_status"
    /\ LET Q == update_page_status(pages, next_page.id, "Published", today)
           n == NewlyPublished(pages, Q, Camp)
       IN /\ pages' = Q
          /\ cyc' = [cyc EXCEPT ![Camp].writes = @ + 1, ![Camp].pubs = @ + n]
          /\ became' = [became EXCEPT ![Camp] = @ + n]
    /\ pc' = "write_url"
    /\ UNCHANGED <<today, active, running, campaigns, idx, next_page, result,
                   lastTrigger, dash>>
    /\ UNCHANGED batch
    /\ UNCHANGED <<proc, imp, wiki>>

\* Mutant of WriteUrl: the loop goes on to the next campaign without the
\* sleep of line 79.
WriteUrlNoSleep ==
    /\ pc = "write_url"
    /\ LET Q == update_live_url(pages, next_page.id, result.live_url, today)
           n == NewlyPublished(pages, Q, Camp)
       IN /\ pages' = Q
          /\ cyc' = [cyc EXCEPT ![Camp].writes = @ + 1, ![Camp].pubs = @ + n,
                                ![Camp].outcome = "succeeded"]
          /\ became' = [became EXCEPT ![Camp] = @ + n]
    /\ EndIteration
    /\ UNCHANGED <<today, active, running, campaigns, next_page, result,
                   lastTrigger, dash, batch>>
    /\ UNCHANGED <<proc, imp, wiki>>

\* Line 76: db.update_live_url(next_page['id'], live_url), committed.
WriteUrl ==
    /\ pc = "write_url"
    /\ LET Q == update_live_url(pages, next_page.id, result.live_url, today)
           n == NewlyPublished(pages, Q, Camp)
       IN /\ pages' = Q
          /\ cyc' = [cyc EXCEPT ![Camp].writes = @ + 1, ![Camp].pubs = @ + n,
                                ![Camp].outcome = "succeeded"]
          /\ became' = [became EXCEPT ![Camp] = @ + n]
    /\ pc' = "sleep"
    /\ UNCHANGED <<today, active, running, campaigns, idx, next_page, result,
                   lastTrigger, dash>>
    /\ UNCHANGED batch
    /\ UNCHANGED <<proc, imp, wiki>>

\* Line 79: time.sleep(10), then the next campaign.
Sleep ==
    /\ pc = "sleep"
    /\ EndIteration
    /\ UNCHANGED <<pages, today, active, running, campaigns, next_page,
                   result, cyc, became, lastTrigger, dash>>
    /\ UNCHANGED batch
    /\ UNCHANGED <<proc, imp, wiki>>

\* Mutant of Return: the finished run keeps its job instance.
ReturnKeepsInstance ==
    /\ pc = "done"
    /\ pc' = "idle"
    /\ campaigns' = <<>>
    /\ idx' = 0
    /\ next_page' = NoPage
    /\ result' = NoResult
    /\ cyc' = [c \in Camps |-> NoCyc]
    /\ lastTrigger' = "none"
    /\ UNCHANGED <<pages, today, active, running, became, dash, batch>>
    /\ UNCHANGED <<proc, imp, wiki>>

\* run_drip_cycle returns (or an exception left it): the job instance is
\* over and the scheduler waits for the next interval.
Return ==
    /\ pc = "done"
    /\ pc' = "idle"
    /\ running' = running - 1
    /\ campaigns' = <<>>
    /\ idx' = 0
    /\ next_page' = NoPage
    /\ result' = NoResult
    /\ cyc' = [c \in Camps |-> NoCyc]
    /\ lastTrigger' = "none"
    /\ UNCHANGED <<pages, today, active, became, dash>>
    /\ UNCHANGED batch
    /\ UNCHANGED <<proc, imp, wiki>>

\* The publisher process dies (kill, power loss) and is started again: the
\* cycle's locals are gone, the database file stays.
Crash ==
    /\ pc # "idle"
    /\ running' = 0
    /\ pc' = "idle"
    /\ campaigns' = <<>>
    /\ idx' = 0
    /\ next_page' = NoPage
    /\ result' = NoResult
    /\ cyc' = [c \in Camps |-> NoCyc]
    /\ lastTrigger' = "none"
    /\ UNCHANGED <<pages, today, active, became, dash>>
    /\ UNCHANGED batch
    /\ UNCHANGED <<proc, imp, wiki>>

\* ---------------------------------------------------------- environment

\* Midnight: a new quota window.
NextDay ==
    /\ today < MaxDay
    /\ today' = today + 1
    /\ became' = [c \in Camps |-> 0]
    /\ UNCHANGED <<pages, active, running, pc, campaigns, idx, next_page,
                   result, cyc, lastTrigger, dash>>
    /\ UNCHANGED batch
    /\ UNCHANGED <<proc, imp, wiki>>

\* The external management operation that (de)activates a campaign.
SetActive ==
    /\ \E c \in Camps, b \in BOOLEAN :
        /\ active[c] # b
        /\ active' = [active EXCEPT ![c] = b]
    /\ UNCHANGED <<pages, today, running, pc, campaigns, idx, next_page,
                   result, cyc, became, lastTrigger, dash>>
    /\ UNCHANGED batch
    /\ UNCHANGED <<proc, imp, wiki>>

\* ------------------------------------------------ the dashboard (app.py)

\* bulk_insert_pages with a batch of one or two rows of one page type.
bulk_insert_pages ==
    /\ \E n \in {1, 2} :
        /\ Len(pages) + n <= NumPages
        /\ \E cs \in [1..n -> Camps] :
            pages' = pages \o [k \in 1..n |-> NewRow(cs[k], today)]
    /\ UNCHANGED <<today, active, running, pc, campaigns, idx, next_page,
                   result, cyc, became, lastTrigger, dash>>
    /\ UNCHANGED batch
    /\ UNCHANGED <<proc, imp, wiki>>

\* Generator tab, lines 649-650: one page of the batch is saved
\* (update_serp_data, then update_page_status 'Data Ready').
GenSave ==
    /\ dash.pc = "idle"
    /\ \E i \in DOMAIN pages :
        /\ pages[i].status = "Pending"
        /\ pages' = update_page_status(update_serp_data(pages, i, today),
                                       i, "Data Ready", today)
    /\ UNCHANGED <<today, active, running, pc, campaigns, idx, next_page,
                   result, cyc, became, lastTrigger, dash>>
    /\ UNCHANGED batch
    /\ UNCHANGED <<proc, imp, wiki>>

\* Mutant of ContentSaveHtml: the status is written first (lines 923 and 924
\* the other way round).
ContentSaveStatusFirst ==
    /\ dash.pc = "idle"
    /\ \E i \in DOMAIN pages :
        /\ pages[i].status = "Data Ready"
        /\ pages' = update_page_status(pages, i, "Content Ready", today)
        /\ dash' = [pc |-> "content", page |-> i]
    /\ UNCHANGED <<today, active, running, pc, campaigns, idx, next_page,
                   result, cyc, became, lastTrigger, batch, proc, imp, wiki>>

\* Content tab, lines 923-924: the two writes of one page of the batch.
ContentSaveHtml ==
    /\ dash.pc = "idle"
    /\ \E i \in DOMAIN pages :
        /\ pages[i].status = "Data Ready"
        /\ pages' = update_html_content(pages, i, today)
        /\ dash' = [pc |-> "content", page |-> i]
    /\ UNCHANGED <<today, active, running, pc, campaigns, idx, next_page,
                   result, cyc, became, lastTrigger>>
    /\ UNCHANGED batch
    /\ UNCHANGED <<proc, imp, wiki>>

ContentSaveStatus ==
    /\ dash.pc = "content"
    /\ pages' = update_page_status(pages, dash.page, "Content Ready", today)
    /\ dash' = [pc |-> "idle", page |-> 0]
    /\ UNCHANGED <<today, active, running, pc, campaigns, idx, next_page,
                   result, cyc, became, lastTrigger>>
    /\ UNCHANGED batch
    /\ UNCHANGED <<proc, imp, wiki>>

Next ==
    \/ TriggerStart
    \/ TriggerDropped
    \/ QuotaCheck
    \/ SelectPage
    \/ Deliver
    \/ WriteStatus
    \/ WriteUrl
    \/ Sleep
    \/ Return
    \/ Crash
    \/ NextDay
    \/ SetActive
    \/ bulk_insert_pages
    \/ GenSave
    \/ ContentSaveHtml
    \/ ContentSaveStatus

Spec == Init /\ [][Next]_vars

\* ------------------------------- a second dashboard session (app.py)

\* The script reads its page list when the tab renders (line 475:
\* get_pages_by_status('Pending'); line 792: get_pages_by_status('Data
\* Ready')) and the button's loop then walks batch = list[:batch_size];
\* the rows are not read again before they are written.
BatchRead ==
    /\ batch.kind = "none"
    /\ \E kind \in {"gen", "content"} :
        LET wanted == IF kind = "gen" THEN "Pending" ELSE "Data Ready"
            listed == {i \in DOMAIN pages : pages[i].status = wanted}
        IN  \E ids \in (SUBSET listed) \ {{}} :
                batch' = [kind |-> kind, ids |-> ids, cur |-> 0]
    /\ UNCHANGED <<pages, today, active, running, pc, campaigns, idx,
                   next_page, result, cyc, became, lastTrigger, dash>>
    /\ UNCHANGED <<proc, imp, wiki>>

\* What is left of the batch once page i is done.
BatchAfter(i) ==
    IF batch.ids \ {i} = {}
    THEN NoBatch
    ELSE [kind |-> batch.kind, ids |-> batch.ids \ {i}, cur |-> 0]

\* Generator loop, lines 649-650, for the next page of the list read earlier.
BatchGenSave ==
    /\ batch.kind = "gen"
    /\ \E i \in batch.ids :
        /\ pages' = update_page_status(update_serp_data(pages, i, today),
                                       i, "Data Ready", today)
        /\ batch' = BatchAfter(i)
    /\ UNCHANGED <<today, active, running, pc, campaigns, idx, next_page,
                   result, cyc, became, lastTrigger, dash>>
    /\ UNCHANGED <<proc, imp, wiki>>

\* Content loop, line 923, for the next page of the list read earlier.
BatchContentHtml ==
    /\ batch.kind = "content"
    /\ batch.cur = 0
    /\ \E i \in batch.ids :
        /\ pages' = update_html_content(pages, i, today)
        /\ batch' = [batch EXCEPT !.cur = i]
    /\ UNCHANGED <<today, active, running, pc, campaigns, idx, next_page,
                   result, cyc, became, lastTrigger, dash>>
    /\ UNCHANGED <<proc, imp, wiki>>

\* Content loop, line 924.
BatchContentStatus ==
    /\ batch.kind = "content"
    /\ batch.cur # 0
    /\ pages' = update_page_status(pages, batch.cur, "Content Ready", today)
    /\ batch' = BatchAfter(batch.cur)
    /\ UNCHANGED <<today, active, running, pc, campaigns, idx, next_page,
                   result, cyc, became, lastTrigger, dash>>
    /\ UNCHANGED <<proc, imp, wiki>>

\* Two dashboard sessions and the publisher on one database, one day, every
\* campaign active.
NextSessions ==
    \/ TriggerStart
    \/ QuotaCheck
    \/ SelectPage
    \/ Deliver
    \/ WriteStatus
    \/ WriteUrl
    \/ Sleep
    \/ Return
    \/ bulk_insert_pages
    \/ GenSave
    \/ ContentSaveHtml
    \/ ContentSaveStatus
    \/ BatchRead
    \/ BatchGenSave
    \/ BatchContentHtml
    \/ BatchContentStatus

SpecSessions == Init /\ [][NextSessions]_vars

\* ------------------------------------- a site that never answers

\* Line 42: requests.post(url, headers=headers, json=post_data) is called
\* without timeout=, so the call does not return while the site keeps the
\* connection open and sends nothing.
DeliverBlocks ==
    /\ pc = "deliver"
    /\ cyc' = [cyc EXCEPT ![Camp].calls = @ + 1, ![Camp].day = today]
    /\ pc' = "blocked"
    /\ UNCHANGED <<pages, today, active, running, campaigns, idx, next_page,
                   result, became, lastTrigger, dash, batch>>
    /\ UNCHANGED <<proc, imp, wiki>>

\* The steps of an executing run_drip_cycle.
CycleStep ==
    \/ QuotaCheck
    \/ SelectPage
    \/ Deliver
    \/ WriteStatus
    \/ WriteUrl
    \/ Sleep
    \/ Return

\* The publisher and the dashboard with a site that may never answer.
NextNoTimeout ==
    \/ TriggerStart
    \/ TriggerDropped
    \/ CycleStep
    \/ DeliverBlocks
    \/ NextDay
    \/ bulk_insert_pages
    \/ GenSave
    \/ ContentSaveHtml
    \/ ContentSaveStatus

SpecNoTimeout == Init /\ [][NextNoTimeout]_vars

\* ------------------------------------ the scheduler left running

\* The publisher process is never stopped and the site always answers.
NextScheduler ==
    \/ TriggerStart
    \/ TriggerDropped
    \/ CycleStep
    \/ bulk_insert_pages
    \/ GenSave
    \/ ContentSaveHtml
    \/ ContentSaveStatus

\* Lines 87-92: scheduler.start() blocks and fires the interval trigger
\* every hour, so a due run is started when no instance is executing
\* (WF of TriggerStart); the thread of an executing run takes its next step
\* (WF of CycleStep).
SpecScheduler ==
    /\ Init
    /\ [][NextScheduler]_vars
    /\ WF_vars(TriggerStart)
    /\ WF_vars(CycleStep)

\* --------------------------------------------- Ctrl+C in the terminal

\* Mutant of Interrupt: the handler ends the process at once, the executing
\* run with it.
InterruptAborts ==
    /\ ~proc.stopped
    /\ proc' = [proc EXCEPT !.stopped = TRUE]
    /\ pc' = "idle"
    /\ running' = 0
    /\ campaigns' = <<>>
    /\ idx' = 0
    /\ next_page' = NoPage
    /\ result' = NoResult
    /\ cyc' = [c \in Camps |-> NoCyc]
    /\ lastTrigger' = "none"
    /\ UNCHANGED <<pages, today, active, became, dash, batch, imp, wiki>>

\* Lines 91-94: KeyboardInterrupt (or SystemExit) is raised in the main
\* thread, leaves scheduler.start() and is passed over; the scheduler's loop
\* is gone, so no trigger is processed any more.  An executing run is in a
\* thread of the executor's pool, which the interpreter joins at exit.
Interrupt ==
    /\ ~proc.stopped
    /\ proc' = [proc EXCEPT !.stopped = TRUE]
    /\ UNCHANGED <<pages, today, active, running, pc, campaigns, idx,
                   next_page, result, cyc, became, lastTrigger, dash, batch,
                   imp, wiki>>

\* The publisher and the dashboard, with an interrupt at any moment.
NextInterrupt ==
    \/ TriggerStart
    \/ TriggerDropped
    \/ CycleStep
    \/ Interrupt
    \/ bulk_insert_pages
    \/ GenSave
    \/ ContentSaveHtml
    \/ ContentSaveStatus

SpecInterrupt == Init /\ [][NextInterrupt]_vars

\* ------------------------------------------ a database call that raises

\* A db call of run_drip_cycle raises (lines 61, 69, 75, 76: the database
\* file locked or gone).  Nothing in run_drip_cycle catches it, so it leaves
\* the function; APScheduler's executor catches it, logs it and keeps the
\* job, and line 92 never sees it.
DbRaises ==
    /\ pc \in {"check", "select", "write_status", "write_url"}
    /\ cyc' = [cyc EXCEPT ![Camp].outcome = "raised"]
    /\ pc' = "done"
    /\ proc' = [proc EXCEPT !.escaped = TRUE]
    /\ UNCHANGED <<pages, today, active, running, campaigns, idx, next_page,
                   result, became, lastTrigger, dash, batch, imp, wiki>>

\* The publisher and the dashboard with a database that may fail.
NextDbError ==
    \/ TriggerStart
    \/ TriggerDropped
    \/ CycleStep
    \/ DbRaises
    \/ bulk_insert_pages
    \/ GenSave
    \/ ContentSaveHtml
    \/ ContentSaveStatus

SpecDbError == Init /\ [][NextDbError]_vars

\* ------------------------------------------- the pages the site holds

\* The site answered 201 Created: it has made a new page, whatever the body
\* of its answer was.
Created(resp) == resp.kind = "response" /\ resp.status_code = 201

\* The call of line 72 together with its effect at the site: posts counts
\* the pages the site has created for a row (0, 1, 2 for two or more).
DeliverAtSite ==
    /\ DeliverCall
    /\ proc' = IF Created(cyc'[Camp].resp)
               THEN [proc EXCEPT !.posts[next_page.id] =
                                     IF @ = 0 THEN 1 ELSE 2]
               ELSE proc

\* The publisher with crashes, the dashboard, and the site's pages.
NextRedelivery ==
    \/ TriggerStart
    \/ TriggerDropped
    \/ QuotaCheck
    \/ SelectPage
    \/ DeliverAtSite
    \/ WriteStatus
    \/ WriteUrl
    \/ Sleep
    \/ Return
    \/ Crash
    \/ bulk_insert_pages
    \/ GenSave
    \/ ContentSaveHtml
    \/ ContentSaveStatus

SpecRedelivery == Init /\ [][NextRedelivery]_vars

\* ------------------------------------------------ day after day

\* A timestamp one day further in the past; day 0 stands for "day 0 or
\* earlier".
DayBefore(t) == IF t > 0 THEN t - 1 ELSE 0

\* Midnight with no last day: once today is MaxDay the days are counted
\* back from today, so every timestamp of the table moves one day into the
\* past instead.  Rows of the same or an earlier day keep their order by id,
\* as AUTOINCREMENT gives it.
Midnight ==
    /\ IF today < MaxDay
       THEN /\ today' = today + 1
            /\ pages' = pages
       ELSE /\ today' = today
            /\ pages' = [i \in DOMAIN pages |->
                            [pages[i] EXCEPT !.created_at = DayBefore(@),
                                             !.updated_at = DayBefore(@)]]
    /\ became' = [c \in Camps |-> 0]
    /\ UNCHANGED <<active, running, pc, campaigns, idx, next_page, result,
                   cyc, lastTrigger, dash, batch, proc, imp, wiki>>

\* The call of line 72 for campaign c is answered with a 201 the publisher
\* takes as success.
DeliverSucceeds(c) ==
    /\ Deliver
    /\ Camp = c
    /\ pc' = "write_status"

\* The publisher left running, every campaign active, the dashboard, and
\* the days going by.
NextDrip ==
    \/ TriggerStart
    \/ CycleStep
    \/ Midnight
    \/ bulk_insert_pages
    \/ GenSave
    \/ ContentSaveHtml
    \/ ContentSaveStatus

\* The interval trigger keeps firing and an executing run keeps going (as
\* in SpecScheduler), midnight comes, and for every campaign the site does
\* not refuse for ever: a call made again and again succeeds at last.
SpecDrip ==
    /\ Init
    /\ [][NextDrip]_vars
    /\ WF_vars(TriggerStart)
    /\ WF_vars(CycleStep)
    /\ WF_vars(Midnight)
    /\ \A c \in Camps : SF_vars(DeliverSucceeds(c))

\* ------------------------------- the CSV import (database.py 128-185)

\* imp.table is the pages table as the import sees it: page_type, city,
\* parent_hub_id (0 for NULL) and status of every row, the row id being its
\* position; parent_city is the input's value, kept with the row for the
\* properties (it is not a column).

Cities == {"Newark", "Hoboken"}

\* Values of the input's page_type, and str.upper() of each.
PageTypes == {"hub", "Spoke", "Landing"}

Upper(t) ==
    CASE t = "hub" -> "HUB"
      [] t = "Spoke" -> "SPOKE"
      [] OTHER -> "LANDING"

\* The lists a caller can pass: dicts with page_type, city, parent_city
\* ('' when the CSV has none).
InputRows ==
    [page_type : PageTypes, city : Cities, parent_city : Cities \cup {""}]

Inputs == UNION {[1..n -> InputRows] : n \in 1..MaxBatch}

\* Lines 140-141: the two list comprehensions.
Hubs(input) == SelectSeq(input, LAMBDA p : Upper(p.page_type) = "HUB")
Spokes(input) == SelectSeq(input, LAMBDA p : Upper(p.page_type) = "SPOKE")

\* Mutant of InsertionOrder: one pass over the list as given.
InsertionOrderAsGiven(input) ==
    SelectSeq(input, LAMBDA p : Upper(p.page_type) \in {"HUB", "SPOKE"})

\* Lines 144-182: first every hub, then every spoke.
InsertionOrder(input) == Hubs(input) \o Spokes(input)

\* SELECT id FROM pages WHERE city = ? AND page_type = 'Hub': the ids that
\* LIMIT 1 may return one of.
HubLookup(T, city) ==
    {h \in 1..Len(T) : T[h].city = city /\ T[h].page_type = "Hub"}

\* What fetchone() may give for a row about to be inserted: an id of a
\* matching hub for a spoke with a parent_city, 0 (None) when there is no
\* match, no parent_city or the row is a hub.
LookupResults(T, p) ==
    IF Upper(p.page_type) = "SPOKE" /\ p.parent_city # ""
          /\ HubLookup(T, p.parent_city) # {}
    THEN HubLookup(T, p.parent_city)
    ELSE {0}

\* The INSERT of lines 146-154 and 173-182: 'Hub' or 'Spoke' as a literal,
\* status 'Pending'.
ImportRow(p, parent_hub_id) ==
    [page_type |-> IF Upper(p.page_type) = "HUB" THEN "Hub" ELSE "Spoke",
     city |-> p.city,
     parent_city |-> IF Upper(p.page_type) = "HUB" THEN "" ELSE p.parent_city,
     parent_hub_id |-> parent_hub_id,
     status |-> "Pending"]

\* The rows inserted one after the other, picks[k] being what the lookup
\* gave for the k-th of them.
RECURSIVE InsertRows(_, _, _)
InsertRows(T, rows, picks) ==
    IF rows = <<>> THEN T
    ELSE InsertRows(Append(T, ImportRow(Head(rows), Head(picks))),
                    Tail(rows), Tail(picks))

RECURSIVE PossiblePicks(_, _, _)
PossiblePicks(T, rows, picks) ==
    IF rows = <<>> THEN TRUE
    ELSE /\ Head(picks) \in LookupResults(T, Head(rows))
         /\ PossiblePicks(Append(T, ImportRow(Head(rows), Head(picks))),
                          Tail(rows), Tail(picks))

\* One call of bulk_insert_pages(pages_data) and its return value.
BulkInsert ==
    /\ \E input \in Inputs :
        LET rows == InsertionOrder(input)
        IN /\ Len(imp.table) + Len(rows) <= MaxRows
           /\ \E picks \in [1..Len(rows) -> 0..(Len(imp.table) + Len(rows))] :
                /\ PossiblePicks(imp.table, rows, picks)
                /\ imp' = [table |-> InsertRows(imp.table, rows, picks),
                           input |-> input,
                           base |-> Len(imp.table),
                           ret |-> Len(rows)]
    /\ UNCHANGED <<pages, today, active, running, pc, campaigns, idx,
                   next_page, result, cyc, became, lastTrigger, dash, batch,
                   proc, wiki>>

NextImport == BulkInsert

SpecImport == Init /\ [][NextImport]_vars

\* ------------------- the table emptied between cycles (app.py 229, 336)

\* "Clear All Pages" in the sidebar, or an import with "clear existing":
\* DELETE FROM pages (database.py 355-360).  The dashboard session is not
\* inside one of its batch loops; the step is taken while no cycle runs,
\* the row ids of the model starting again at 1 after it.  The history
\* counter became is kept finite by the guard on it.
clear_all_pages ==
    /\ dash.pc = "idle"
    /\ pc = "idle"
    /\ pages # <<>>
    /\ \A c \in Camps : became[c] <= drip_rate_per_day(c)
    /\ pages' = <<>>
    /\ UNCHANGED <<today, active, running, pc, campaigns, idx, next_page,
                   result, cyc, became, lastTrigger, dash, batch, proc, imp,
                   wiki>>

NextExternal ==
    \/ TriggerStart
    \/ CycleStep
    \/ NextDay
    \/ bulk_insert_pages
    \/ GenSave
    \/ ContentSaveHtml
    \/ ContentSaveStatus
    \/ clear_all_pages

SpecExternal == Init /\ [][NextExternal]_vars

\* ------------------------ fetch_wiki_urls_batch (app.py 96-117)

\* ThreadPoolExecutor(max_workers=5), line 110.
max_workers == 5

\* wiki.task[i] is the future of page i: "new" before submit, "queued" in
\* the executor's work queue, "running" in a worker thread, "done".
\* wiki.city[i] tells whether the page's city is non-empty; wiki.writes[i]
\* counts the assignments to page i's 'wiki_url'; wiki.yielded are the
\* futures as_completed has yielded; wiki.progress are the arguments the
\* callback was called with, each the pair <<completed, total>> of the
\* division of line 115.

WikiPages == 1..wiki.total

InState(st) == {i \in WikiPages : wiki.task[i] = st}

\* Mutant of NextCompleted: the counter is not advanced.
NextCompletedStay(n) == n

\* Line 114: completed += 1.
NextCompleted(n) == n + 1

\* Lines 98-99: a call with a list of n page dicts.
WikiCall ==
    /\ wiki.pc = "idle"
    /\ \E n \in 0..NumWiki :
        \E city \in [1..n -> BOOLEAN] :
            wiki' = [pc |-> "submit", total |-> n, city |-> city,
                     task |-> [i \in 1..n |-> "new"],
                     writes |-> [i \in 1..n |-> 0],
                     yielded |-> {}, completed |-> 0, progress |-> <<>>]
    /\ UNCHANGED <<pages, today, active, running, pc, campaigns, idx,
                   next_page, result, cyc, became, lastTrigger, dash, batch,
                   proc, imp>>

\* Line 111: executor.submit for the next page of the list; after the last
\* one the comprehension is complete and the for loop of line 113 starts.
WikiSubmit ==
    /\ wiki.pc = "submit"
    /\ IF InState("new") = {}
       THEN wiki' = [wiki EXCEPT !.pc = "collect"]
       ELSE LET i == CHOOSE x \in InState("new") :
                        \A y \in InState("new") : x <= y
            IN wiki' = [wiki EXCEPT !.task[i] = "queued"]
    /\ UNCHANGED <<pages, today, active, running, pc, campaigns, idx,
                   next_page, result, cyc, became, lastTrigger, dash, batch,
                   proc, imp>>

\* A worker thread takes the oldest work item of the queue; there are at
\* most max_workers threads.
WorkerTake ==
    /\ InState("queued") # {}
    /\ Cardinality(InState("running")) < max_workers
    /\ LET i == CHOOSE x \in InState("queued") :
                     \A y \in InState("queued") : x <= y
       IN wiki' = [wiki EXCEPT !.task[i] = "running"]
    /\ UNCHANGED <<pages, today, active, running, pc, campaigns, idx,
                   next_page, result, cyc, became, lastTrigger, dash, batch,
                   proc, imp>>

\* Lines 101-107: fetch_single in a worker: the page's 'wiki_url' is
\* assigned when its city is non-empty, and the future completes.
WorkerFinish ==
    /\ \E i \in InState("running") :
        wiki' = [wiki EXCEPT !.task[i] = "done",
                             !.writes[i] = IF wiki.city[i] THEN @ + 1 ELSE @]
    /\ UNCHANGED <<pages, today, active, running, pc, campaigns, idx,
                   next_page, result, cyc, became, lastTrigger, dash, batch,
                   proc, imp>>

\* Lines 113-116: as_completed yields a finished future not yet yielded;
\* the counter advances and the callback is called with completed / total.
WikiCollect ==
    /\ wiki.pc = "collect"
    /\ \E i \in InState("done") \ wiki.yielded :
        wiki' = [wiki EXCEPT
                   !.yielded = @ \cup {i},
                   !.completed = NextCompleted(@),
                   !.progress = Append(@, <<NextCompleted(wiki.completed),
                                            wiki.total>>)]
    /\ UNCHANGED <<pages, today, active, running, pc, campaigns, idx,
                   next_page, result, cyc, became, lastTrigger, dash, batch,
                   proc, imp>>

\* as_completed is exhausted once every future has been yielded.
WikiCollectEnd ==
    /\ wiki.pc = "collect"
    /\ wiki.yielded = WikiPages
    /\ wiki' = [wiki EXCEPT !.pc = "exit"]
    /\ UNCHANGED <<pages, today, active, running, pc, campaigns, idx,
                   next_page, result, cyc, became, lastTrigger, dash, batch,
                   proc, imp>>

\* Lines 110 and 117: the with block's exit is shutdown(wait=True), which
\* joins the workers; then return pages_data.
WikiReturn ==
    /\ wiki.pc = "exit"
    /\ InState("queued") \cup InState("running") = {}
    /\ wiki' = [wiki EXCEPT !.pc = "returned"]
    /\ UNCHANGED <<pages, today, active, running, pc, campaigns, idx,
                   next_page, result, cyc, became, lastTrigger, dash, batch,
                   proc, imp>>

\* The caller goes on (app.py 361-363); a later import calls again.
WikiDone ==
    /\ wiki.pc = "returned"
    /\ wiki' = NoWiki
    /\ UNCHANGED <<pages, today, active, running, pc, campaigns, idx,
                   next_page, result, cyc, became, lastTrigger, dash, batch,
                   proc, imp>>

NextWiki ==
    \/ WikiCall
    \/ WikiSubmit
    \/ WorkerTake
    \/ WorkerFinish
    \/ WikiCollect
    \/ WikiCollectEnd
    \/ WikiReturn
    \/ WikiDone

SpecWiki == Init /\ [][NextWiki]_vars


\* ----------------------------------------------------------- properties

Processed == {"skipped_quota", "skipped_empty", "succeeded", "failed"}

\* A response post_to_wordpress must report as a failure: an exception of
\* requests.post (connection error, timeout), a status other than 201, or a
\* body response.json() cannot parse.
IsFailure(resp) ==
    \/ resp.kind = "exception"
    \/ resp.kind = "response" /\ resp.status_code # 201
    \/ resp.kind = "response" /\ resp.body = "unparsable"

\* C1: a campaign whose published-today count was at or over its daily limit
\* when the cycle's quota check ran gets, from that cycle, no selected page,
\* no delivery call and no write to the pages table.
C1_QuotaSkipTouchesNothing ==
    \A c \in Camps :
        (cyc[c].count >= 0 /\ cyc[c].count >= drip_rate_per_day(c))
            => /\ cyc[c].item = 0
               /\ cyc[c].calls = 0
               /\ cyc[c].writes = 0

\* C1 witness: a finished cycle skipped a campaign at its limit although a
\* page of that campaign was ready.
C1_Witness ==
    /\ pc = "done"
    /\ \E c \in Camps :
        /\ cyc[c].outcome = "skipped_quota"
        /\ cyc[c].count >= drip_rate_per_day(c)
        /\ ReadyPages(pages, c) # {}

\* C2: in every quota window (day), across cycles, crashes and restarts, the
\* number of pages of a campaign that became 'Published' in that window never
\* exceeds the campaign's daily limit.
C2_QuotaNeverExceeded ==
    \A c \in Camps : became[c] <= drip_rate_per_day(c)

\* C2 witness: a campaign has used up its limit today, a later cycle skipped
\* it, and one of its pages is still waiting.
C2_Witness ==
    \E c \in Camps :
        /\ became[c] = drip_rate_per_day(c)
        /\ cyc[c].outcome = "skipped_quota"
        /\ ReadyPages(pages, c) # {}

\* C3: once the cycle has recorded a successful delivery of a page, the page is
\* 'Published', its timestamp is one the cycle wrote (not older than the
\* delivery) and its live_url is exactly the link post_to_wordpress returned.
C3_SuccessPublishes ==
    \A c \in Camps :
        cyc[c].outcome = "succeeded"
            => /\ cyc[c].row.status = "Content Ready"
               /\ pages[cyc[c].item].status = "Published"
               /\ pages[cyc[c].item].live_url = cyc[c].link
               /\ cyc[c].link = cyc[c].resp.link
               /\ pages[cyc[c].item].updated_at >= cyc[c].day
               /\ pages[cyc[c].item].updated_at <= today

\* C3 witness: a finished cycle published a page under a link the site sent.
C3_Witness ==
    /\ pc = "done"
    /\ \E c \in Camps :
        /\ cyc[c].outcome = "succeeded"
        /\ cyc[c].link \in Links
        /\ pages[cyc[c].item].live_url = cyc[c].link

\* C4: after a delivery that failed (any failure kind) the selected page is
\* exactly the row that was selected: still 'Content Ready', no live_url, its
\* timestamp untouched, and it is again among the campaign's ready pages.
C4_FailureLeavesItemReady ==
    \A c \in Camps :
        (cyc[c].calls > 0 /\ IsFailure(cyc[c].resp))
            => /\ pages[cyc[c].item] = cyc[c].row
               /\ pages[cyc[c].item].status = "Content Ready"
               /\ pages[cyc[c].item].live_url = NULL
               /\ cyc[c].item \in ReadyPages(pages, c)
               /\ cyc[c].writes = 0

\* C4 witness: finished cycles saw a failed delivery of each kind's
\* representative; here a non-201 answer, the page still ready.
C4_Witness ==
    /\ pc = "done"
    /\ \E c \in Camps :
        /\ cyc[c].outcome = "failed"
        /\ cyc[c].resp.kind = "response"
        /\ cyc[c].resp.status_code = 200
        /\ get_next_ready_page(pages, c) = cyc[c].item

\* C5: one cycle makes at most one page per campaign 'Published'.
C5_AtMostOnePerCycle ==
    \A c \in Camps : cyc[c].pubs <= 1

\* C5 witness: a finished cycle published one page of a campaign that had
\* another page ready and was still under its limit afterwards.
C5_Witness ==
    /\ pc = "done"
    /\ \E c \in Camps :
        /\ cyc[c].pubs = 1
        /\ ReadyPages(pages, c) # {}
        /\ cyc[c].count + 1 < drip_rate_per_day(c)

\* i is not newer than j: created earlier, or at the same time with a lower id.
NotNewer(P, i, j) ==
    \/ P[i].created_at < P[j].created_at
    \/ (P[i].created_at = P[j].created_at /\ i <= j)

\* C6: whenever a cycle selects a page for a campaign, no 'Content Ready' page
\* of that campaign is older than it (creation time, then id).
C6_FIFO ==
    [][(pc = "select" /\ pc' = "deliver")
          => \A j \in ReadyPages(pages, Camp) :
                 NotNewer(pages, next_page'.id, j)]_vars

\* C6 witness: a page was selected while a second page of the campaign, created
\* at the same time but with a higher id, was ready too.
C6_Witness ==
    /\ pc = "deliver"
    /\ \E j \in ReadyPages(pages, Camp) :
        /\ j > next_page.id
        /\ pages[j].created_at = pages[next_page.id].created_at

\* C7: every page handed to post_to_wordpress was 'Content Ready' when it was
\* selected and still is when the call is made.
C7_OnlyReadyDelivered ==
    /\ \A c \in Camps : cyc[c].calls > 0 => cyc[c].row.status = "Content Ready"
    /\ pc = "deliver" => /\ next_page.row.status = "Content Ready"
                         /\ pages[next_page.id].status = "Content Ready"

\* C7 witness: a delivery is about to be made for a campaign that also has a
\* 'Published' page and a page that is not ready yet.
C7_Witness ==
    /\ pc = "deliver"
    /\ \E i \in DOMAIN pages : pages[i].status = "Published"

\* C8: at most one run_drip_cycle executes at any time.
C8_NoOverlap == running <= 1

\* C8 witness: a trigger fired in the middle of a cycle and was dropped.
C8_Witness ==
    /\ lastTrigger = "dropped"
    /\ pc = "write_url"
    /\ running = 1

\* C9: no delivery outcome raises out of the cycle, and a cycle that reaches
\* its end has processed every campaign of its list, whatever the earlier
\* campaigns' deliveries did.
C9_FailureDoesNotAbort ==
    /\ \A c \in Camps : cyc[c].outcome # "raised"
    /\ pc = "done" =>
          \A k \in 1..Len(campaigns) : cyc[campaigns[k]].outcome \in Processed

\* C9 witness: a finished cycle whose first campaign's delivery failed with an
\* exception and whose second campaign was then delivered.
C9_Witness ==
    /\ pc = "done"
    /\ Len(campaigns) = 2
    /\ cyc[campaigns[1]].outcome = "failed"
    /\ cyc[campaigns[1]].resp.kind = "exception"
    /\ cyc[campaigns[2]].calls = 1

\* C10: in every state of the pages table a row has a live_url if and only if
\* its status is 'Published'.
C10_UrlIffPublished ==
    \A i \in DOMAIN pages :
        (pages[i].live_url # NULL) <=> (pages[i].status = "Published")

\* The order of the page statuses: Pending, Data Ready, Content Ready,
\* Published.
StatusRank(status) ==
    CASE status = "Pending" -> 0
      [] status = "Data Ready" -> 1
      [] status = "Content Ready" -> 2
      [] status = "Published" -> 3

\* C11: no step of a generator batch, of a content batch (of either
\* session, the second one working from a list it read earlier) or of a
\* dispatch cycle moves a page to an earlier status; in particular a
\* Published page stays Published.
C11_StatusNeverRegresses ==
    [][\A i \in DOMAIN pages :
          StatusRank(pages'[i].status) >= StatusRank(pages[i].status)]_vars

\* C12: a call of post_to_wordpress reports success only when the site
\* answered 201; for an answer with any other status code it reports failure
\* and returns no link, and nothing is written for the page.
C12_Only201Succeeds ==
    [][(pc = "deliver" /\ cyc'[Camp].calls = cyc[Camp].calls + 1)
          => LET resp == cyc'[Camp].resp
             IN /\ (resp.kind = "response" /\ resp.status_code # 201)
                      => /\ ~result'.success
                         /\ result'.live_url = NULL
                         /\ cyc'[Camp].outcome = "failed"
                         /\ pc' # "write_status"
                /\ (pc' = "write_status" \/ result'.success)
                      => /\ resp.kind = "response"
                         /\ resp.status_code = 201]_vars

\* C12 witness: the last campaign's call was answered 200 with a JSON body
\* carrying a link, and the call returned (False, None).
C12_Witness ==
    /\ pc = "done"
    /\ Len(campaigns) > 0
    /\ LET c == campaigns[Len(campaigns)]
       IN /\ cyc[c].calls = 1
          /\ cyc[c].resp.status_code = 200
          /\ cyc[c].resp.link \in Links
          /\ cyc[c].outcome = "failed"
          /\ ~result.success
          /\ result.live_url = NULL

\* A 201 answer without a usable link: the body is not JSON, or it is JSON
\* with no 'link' field.
Malformed201(resp) ==
    /\ resp.kind = "response"
    /\ resp.status_code = 201
    /\ (resp.body = "unparsable" \/ resp.link = NULL)

\* C13: a 201 answer whose body cannot be parsed or carries no link is a
\* failed delivery: nothing is written for the page, and a page a cycle
\* published has a live_url that is a link.
C13_Malformed201IsFailure ==
    \A c \in Camps :
        /\ (cyc[c].calls > 0 /\ Malformed201(cyc[c].resp))
              => /\ cyc[c].writes = 0
                 /\ cyc[c].outcome # "succeeded"
                 /\ pages[cyc[c].item].status # "Published"
        /\ cyc[c].outcome = "succeeded"
              => pages[cyc[c].item].live_url \in Links

\* C14: a delivery call is bounded by a timeout, so a started cycle can
\* always take its next step until it has returned, also when the site never
\* answers.
C14_CycleNeverStuck ==
    pc # "idle" => ENABLED CycleStep

\* The campaigns of the executing cycle with a given outcome.
CountOutcome(outcome) ==
    Cardinality({c \in Camps : cyc[c].outcome = outcome})

\* The report the finished cycle has to return.
CycleReport ==
    [attempted |-> CountOutcome("succeeded") + CountOutcome("failed"),
     succeeded |-> CountOutcome("succeeded"),
     failed    |-> CountOutcome("failed"),
     skipped   |-> CountOutcome("skipped_quota") + CountOutcome("skipped_empty")]

\* C15: a cycle that has finished returns a report whose attempted,
\* succeeded, failed and skipped counts are those of what it did, every
\* campaign it walked counted once.
C15_CycleReturnsReport ==
    pc = "done"
        => /\ run_drip_cycle_return # NULL
           /\ run_drip_cycle_return = CycleReport

\* C16: the loop sleeps (line 79) exactly when the campaign it leaves was
\* published for in this pass: the step that moves on to the next campaign,
\* or ends the loop, comes out of the sleep after a successful publish, and
\* comes straight from the quota check, the selection or the failed call
\* otherwise.
C16_SleepOnlyAfterPublish ==
    [][(pc # "idle" /\ idx' = idx + 1)
          => ((pc = "sleep") <=> (cyc'[Camp].outcome = "succeeded"))]_vars

\* C16 witness: the loop is in the sleep after publishing for a campaign
\* that is not the last, an earlier campaign having been left without one.
C16_Witness ==
    /\ pc = "sleep"
    /\ idx = 2
    /\ cyc[campaigns[2]].outcome = "succeeded"
    /\ cyc[campaigns[1]].outcome = "failed"

C18_NoRetryWithinCycle ==
    /\ \A c \in Camps : cyc[c].calls <= 1
    /\ \A c, d \in Camps :
          (c # d /\ cyc[c].calls > 0 /\ cyc[d].calls > 0)
              => cyc[c].item # cyc[d].item

\* C18 witness: a finished cycle whose call for a campaign failed made that
\* one call only, and the page is still waiting as 'Content Ready'.
C18_Witness ==
    /\ pc = "done"
    /\ \E c \in Camps :
        /\ cyc[c].outcome = "failed"
        /\ cyc[c].resp.kind = "exception"
        /\ cyc[c].calls = 1
        /\ cyc[c].item \in ReadyPages(pages, c)

\* The campaigns in the list the executing cycle read at line 57.
Walked == {campaigns[k] : k \in 1..Len(campaigns)}

\* C19: a campaign that is inactive when a cycle reads the campaigns is not
\* in the cycle's list, and for a campaign not in the list no step of the
\* cycle checks a quota, selects a page, calls the site or changes one of
\* its pages: its Published pages stay Published and its 'Content Ready'
\* pages stay 'Content Ready'.  Changing the activation flag changes no
\* page either.
C19_InactiveCampaignUntouched ==
    [][/\ (pc = "idle" /\ pc' # "idle")
            => \A k \in 1..Len(campaigns') : active[campaigns'[k]]
       /\ (pc # "idle" /\ pc' # pc)
            => \A c \in Camps \ Walked :
                  /\ cyc'[c] = NoCyc
                  /\ \A i \in DOMAIN pages :
                        pages[i].camp = c => pages'[i] = pages[i]
       /\ active' # active => pages' = pages]_vars

\* C19 witness: a cycle has run to its end over the other campaign while
\* an inactive campaign had a Published page and a 'Content Ready' page.
C19_Witness ==
    /\ pc = "done"
    /\ Len(campaigns) > 0
    /\ \E c \in Camps \ Walked :
        /\ ~active[c]
        /\ cyc[c] = NoCyc
        /\ ReadyPages(pages, c) # {}
        /\ \E i \in DOMAIN pages :
              pages[i].camp = c /\ pages[i].status = "Published"

\* C20: while the scheduler is left running, a cycle that has reached its
\* end (normally or by an exception) returns, and whenever no cycle is
\* executing another one starts.
C20_CycleFollowsCycle ==
    /\ (pc = "done") ~> (pc = "idle")
    /\ (pc = "idle") ~> (pc # "idle" /\ lastTrigger = "started")

\* C20 witness: a cycle has just started and a page is already Published,
\* so an earlier cycle ran to its end before it.
C20_Witness ==
    /\ pc = "check"
    /\ idx = 1
    /\ lastTrigger = "started"
    /\ cyc[campaigns[1]].count = -1
    /\ \E i \in DOMAIN pages :
          pages[i].status = "Published" /\ pages[i].live_url \in Links

\* C21: the interrupt itself changes nothing of an executing cycle; once
\* the process is interrupted an executing cycle can always take its next
\* step and leaves only by returning, so never between the call of line 72
\* and the writes of lines 75-76; and no cycle starts any more.
C21_InterruptLetsCycleFinish ==
    [][/\ (~proc.stopped /\ proc'.stopped)
            => /\ pc' = pc
               /\ pages' = pages
               /\ cyc' = cyc
       /\ (proc.stopped /\ pc # "idle") => ENABLED CycleStep
       /\ (proc'.stopped /\ pc # "idle" /\ pc' = "idle") => pc = "done"
       /\ (proc'.stopped /\ pc = "idle") => pc' = "idle"]_vars

\* C21 witness: the process is interrupted and the executing cycle, its
\* call answered with 201, is between its two writes.
C21_Witness ==
    /\ proc.stopped
    /\ pc = "write_url"
    /\ result.success
    /\ pages[next_page.id].status = "Published"

\* C22: once an exception has left run_drip_cycle the process ends: the
\* cycle it left is the last one, the scheduler starts no other.
C22_EscapedExceptionEndsProcess ==
    proc.escaped => pc \in {"done", "idle"}

\* C23: in every state, also between the two writes of a content step, a
\* page whose status is 'Pending' or 'Data Ready' has no html_content.
C23_NoPayloadBeforeContentReady ==
    \A i \in DOMAIN pages :
        pages[i].status \in {"Pending", "Data Ready"} => ~pages[i].html_content

\* C24: when the loop, past the quota check of a campaign, finds no
\* 'Content Ready' page of that campaign in the table, it makes no call of
\* post_to_wordpress and no write for it, and goes on to the next campaign
\* of the list (or ends, after the last).
C24_EmptyQueueSkips ==
    [][(/\ pc = "select"
        /\ pc' \notin {"select", "idle"}
        /\ {i \in DOMAIN pages : /\ pages[i].camp = Camp
                                  /\ pages[i].status = "Content Ready"} = {})
          => /\ cyc[Camp].count < drip_rate_per_day(Camp)
             /\ cyc'[Camp].outcome = "skipped_empty"
             /\ cyc'[Camp].item = 0
             /\ cyc'[Camp].calls = 0
             /\ cyc'[Camp].writes = 0
             /\ pages' = pages
             /\ proc' = proc
             /\ idx' = idx + 1
             /\ pc' = IF idx < Len(campaigns) THEN "check" ELSE "done"]_vars

\* C24 witness: the first campaign, under its limit, had no ready page and
\* was left untouched; the loop is at the second campaign, which has one.
C24_Witness ==
    /\ pc = "check"
    /\ idx = 2
    /\ cyc[campaigns[1]].outcome = "skipped_empty"
    /\ cyc[campaigns[1]].count < drip_rate_per_day(campaigns[1])
    /\ cyc[campaigns[1]].calls = 0
    /\ cyc[campaigns[1]].writes = 0
    /\ ReadyPages(pages, campaigns[2]) # {}

\* C25: every page whose status is 'Content Ready' has its html_content,
\* and the row a cycle selected and handed to post_to_wordpress had it.
C25_ContentReadyHasPayload ==
    /\ \A i \in DOMAIN pages :
          pages[i].status = "Content Ready" => pages[i].html_content
    /\ \A c \in Camps :
          cyc[c].item # 0 => /\ cyc[c].row.status = "Content Ready"
                            /\ cyc[c].row.html_content
    /\ pc \in {"deliver", "write_status", "write_url"}
          => next_page.row.html_content

\* C25 witness: a content step is between its two writes (payload saved,
\* status still 'Data Ready') while the cycle is selecting for that page's
\* campaign, and another page has been delivered with its payload.
C25_Witness ==
    /\ dash.pc = "content"
    /\ pages[dash.page].html_content
    /\ pages[dash.page].status = "Data Ready"
    /\ pc = "select"
    /\ Camp = pages[dash.page].camp
    /\ \E c \in Camps : cyc[c].calls > 0 /\ cyc[c].row.html_content

\* C26: over all cycles the site creates at most one page for a row, also
\* when the process dies after the site's 201 and before the row is
\* 'Published'.
C26_AtMostOnePost ==
    \A i \in 1..NumPages : proc.posts[i] <= 1

Imported == (imp.base + 1)..Len(imp.table)

\* C28: after a call of bulk_insert_pages the rows it inserted are one per
\* hub and one per spoke of the input, hubs before spokes; each is
\* 'Pending'; the return value is their number; and each inserted spoke
\* whose parent_city is the city of a hub now in the table (from this or an
\* earlier call) has as parent_hub_id the id of a hub of that city.
C28_SpokesFindTheirHub ==
    /\ imp.ret = Len(imp.table) - imp.base
    /\ imp.ret = Cardinality({k \in 1..Len(imp.input) :
                     Upper(imp.input[k].page_type) \in {"HUB", "SPOKE"}})
    /\ \A k \in Imported : imp.table[k].status = "Pending"
    /\ \A j, k \in Imported :
          (j < k /\ imp.table[j].page_type = "Spoke")
              => imp.table[k].page_type = "Spoke"
    /\ \A k \in Imported :
          (/\ imp.table[k].page_type = "Spoke"
           /\ \E h \in 1..Len(imp.table) :
                 /\ imp.table[h].page_type = "Hub"
                 /\ imp.table[h].city = imp.table[k].parent_city)
              => /\ imp.table[k].parent_hub_id \in 1..Len(imp.table)
                 /\ imp.table[imp.table[k].parent_hub_id].page_type = "Hub"
                 /\ imp.table[imp.table[k].parent_hub_id].city
                        = imp.table[k].parent_city

\* C28 witness: the input listed a spoke before the hub it names, written
\* in lower case, and the spoke was inserted after it with its id.
C28_Witness ==
    /\ Len(imp.input) = 2
    /\ imp.input[1].page_type = "Spoke"
    /\ imp.input[2].page_type = "hub"
    /\ imp.input[1].parent_city = imp.input[2].city
    /\ imp.ret = 2
    /\ imp.table[Len(imp.table)].page_type = "Spoke"
    /\ imp.table[Len(imp.table)].parent_hub_id = Len(imp.table) - 1

\* The rows of the table that count for campaign c today, and its ready
\* rows, written out from the table itself.
PublishedTodayInStore(c) ==
    {i \in DOMAIN pages : /\ pages[i].camp = c
                          /\ pages[i].status = "Published"
                          /\ pages[i].updated_at = today}

ReadyInStore(c) ==
    {i \in DOMAIN pages : pages[i].camp = c /\ pages[i].status = "Content Ready"}

\* C29: every quota decision of a cycle uses the number of rows of the
\* campaign that are published today in the table as it is at that step,
\* and every selection takes the oldest ready row of the table as it is at
\* that step (none exactly when it has no ready row), whatever earlier
\* cycles did and whatever was inserted, made ready or deleted since.
C29_DecidesFromCurrentStore ==
    [][/\ (pc = "check" /\ <<pc, idx>>' # <<pc, idx>>)
            => /\ cyc'[Camp].count = Cardinality(PublishedTodayInStore(Camp))
               /\ (pc' = "select")
                    <=> (Cardinality(PublishedTodayInStore(Camp))
                            < drip_rate_per_day(Camp))
       /\ (pc = "select" /\ <<pc, idx>>' # <<pc, idx>>)
            => IF ReadyInStore(Camp) = {}
               THEN next_page'.id = 0 /\ pc' # "deliver"
               ELSE /\ pc' = "deliver"
                    /\ next_page'.id \in ReadyInStore(Camp)
                    /\ next_page'.row = pages[next_page'.id]
                    /\ \A j \in ReadyInStore(Camp) :
                          NotNewer(pages, next_page'.id, j)]_vars

\* C29 witness: a campaign that published its day's limit in an earlier
\* cycle, whose rows were deleted since, is past the quota check of a new
\* cycle with a count of 0 read from the table.
C29_Witness ==
    /\ pc = "select"
    /\ became[Camp] >= drip_rate_per_day(Camp)
    /\ cyc[Camp].count = 0
    /\ ReadyInStore(Camp) # {}

\* completed / total of one callback is below that of another.
RatioLess(a, b) == a[1] * b[2] < b[1] * a[2]

\* The callback's arguments so far are strictly increasing.
ProgressIncreasing ==
    \A j, k \in 1..Len(wiki.progress) :
        j < k => RatioLess(wiki.progress[j], wiki.progress[k])

\* What holds at the return whatever the cities are: every fetch has
\* finished, one callback per page, increasing, the last one 1.0.
ReturnedComplete ==
    /\ \A i \in WikiPages : wiki.task[i] = "done"
    /\ Len(wiki.progress) = wiki.total
    /\ ProgressIncreasing
    /\ wiki.total > 0
         => wiki.progress[wiki.total][1] = wiki.progress[wiki.total][2]

\* C30 as stated: when fetch_wiki_urls_batch has returned, every fetch has
\* finished, every page dict has been written exactly once, and the callback
\* was called once per page with strictly increasing values ending in 1.0.
C30_EveryPageWrittenOnce ==
    wiki.pc = "returned"
        => /\ ReturnedComplete
           /\ \A i \in WikiPages : wiki.writes[i] = 1

\* C30 amended: no page dict is ever written more than once and the
\* callback's values are always strictly increasing; when the call has
\* returned, every fetch has finished, every page with a non-empty city has
\* been written exactly once and every page with an empty city not at all,
\* and the callback was called once per page, the last time with 1.0.
C30_PagesWrittenAtMostOnce ==
    /\ \A i \in WikiPages : wiki.writes[i] <= 1
    /\ ProgressIncreasing
    /\ wiki.pc = "returned"
         => /\ ReturnedComplete
            /\ \A i \in WikiPages :
                  wiki.writes[i] = IF wiki.city[i] THEN 1 ELSE 0

\* C30 witness: a call with more pages than worker threads, one of them
\* without a city, has returned.
C30_Witness ==
    /\ wiki.pc = "returned"
    /\ wiki.total > max_workers
    /\ \E i \in WikiPages : ~wiki.city[i]
    /\ \E i \in WikiPages : wiki.city[i] /\ wiki.writes[i] = 1
====
